---------------------------- MODULE Spec2Model ----------------------------
(***************************************************************************)
(* A model of deblib's JKTEBOP orchestration layer:                        *)
(*   - jktebop.execute_task / execute_task_async  (the Process Runner)     *)
(*   - task.Task.run / task.Task2.run             (the Task Controller)    *)
(* The engine (the external jktebop executable), the OS pipe that carries  *)
(* its merged stdout/stderr, the drain thread and the calling thread are   *)
(* separate processes of the model.  The file system is the function       *)
(* `files`.                                                                *)
(***************************************************************************)
EXTENDS Integers, Sequences, FiniteSets, TLC

(***************************************************************************)
(* Bounds of the model.                                                    *)
(***************************************************************************)
\* the most lines an engine run writes to its console
MaxLines == 2
\* the number of lines the OS pipe holds before the engine's write blocks
PipeCap == 1
\* the number of text lines a result file holds
ResultLines == 2

(***************************************************************************)
(* Values.                                                                 *)
(***************************************************************************)
\* Python's None, for every optional argument
NoneV == "None"

\* kinds of console line: plain text, a line with "warning" in it, a line
\* with the "### ERROR" marker in it
LineKinds == {"ok", "warn", "err"}

Dirs == {"wd", "od"}
TempStems == {"a_r1", "a_r2"}
Stems == {"a", "b"} \cup TempStems
\* the extensions Task._cleanup_files removes
CleanExts == {"in", "par", "out", "fit"}
Exts == CleanExts \cup {"dat"}

File(d, s, e) == [dir |-> d, stem |-> s, ext |-> e]
NoFile == File(NoneV, NoneV, NoneV)
AllFiles == {File(d, s, e) : d \in Dirs, s \in Stems, e \in Exts}

\* Path.name: the base name of a path, without its directory
Name(f) == [stem |-> f.stem, ext |-> f.ext]

\* what a file holds: nothing there, left by an earlier run, given by the
\* caller, reserved empty by NamedTemporaryFile, rendered from the template,
\* written by the engine
Tags == {"absent", "stale", "given", "reserved", "rendered", "engine"}

\* glob patterns a caller passes as cleanup_pattern
Patterns == {"a.*", "*.out"}

\* fnmatch of a file's base name against a glob pattern
Matches(p, f) ==
    CASE p = "a.*"   -> f.stem = "a"
      [] p = "*.out" -> f.ext = "out"
      [] OTHER       -> FALSE

\* Python truthiness of the values that reach an `if`
Truthy(v) == v \notin {NoneV, "False", ""}

BoolStr(b) == IF b THEN "True" ELSE "False"

RECURSIVE SeqsUpTo(_, _)
SeqsUpTo(S, n) ==
    IF n = 0 THEN {<< >>}
    ELSE LET shorter == SeqsUpTo(S, n - 1)
         IN  shorter \cup {Append(s, x) : s \in shorter, x \in S}

\* what one engine run does: the lines it writes, whether it creates the
\* result file, its exit code
Plans == [lines : SeqsUpTo(LineKinds, MaxLines), makes_out : BOOLEAN, rc : {0, 1}]

\* '"### ERROR" in output'
HasMarker(text) == \E i \in DOMAIN text : text[i] = "err"

\* '"warning" in line.casefold()'
IsWarning(line) == line = "warn"

(***************************************************************************)
(* Errors.                                                                 *)
(***************************************************************************)
NoErr == [type |-> "none", returncode |-> 0, cmd |-> << >>, output |-> << >>,
          filename |-> NoFile]

FileNotFound(f) == [NoErr EXCEPT !.type = "FileNotFoundError", !.filename = f]

\* cmd = ["./jktebop", f"{in_file.name}"]
Cmd_FullPath(in_file) == <<"./jktebop", in_file>>
Cmd(in_file) == <<"./jktebop", Name(in_file)>>

CalledProcessError(rc, cmd, output) ==
    [NoErr EXCEPT !.type = "CalledProcessError", !.returncode = rc,
                  !.cmd = cmd, !.output = output]

VARIABLES
    caller,          \* the entry point the client called
    files,           \* the file system: AllFiles -> Tags
    plan,            \* what the engine does when it is run
    et_args,         \* the arguments bound to the execute_task generator
    et_iter,         \* whether anything iterates the execute_task generator
    et_pc,           \* position of the execute_task generator body
    proc,            \* the engine process: "none", "running", "exited"
    exit_code,       \* the exit code of the engine process
    written,         \* how many lines of its plan the engine has written
    pipe,            \* lines in the OS pipe, written and not yet read
    stdout_closed,   \* the read end of the pipe was closed by Popen.__exit__
    worker,          \* the drain thread: "none", "running", "done"
    buffer,          \* my_stdout_to: the internal diagnostic buffer
    sink,            \* the text forwarded to the caller's stdout_to
    warned,          \* the JktebopTaskWarning notifications issued
    return_code,     \* execute_task's local return_code
    outcome,         \* "Running", "Succeeded", "Failed", "Error"
    err,             \* what the execute_task generator raised
    et_total,        \* lines of the opened out-file
    et_yielded,      \* lines execute_task has yielded
    spawned,         \* engine processes created
    workers_started, \* drain threads started
    exc,             \* exception that left the 'with' block early
    t_args,          \* the arguments of Task.run
    t_pc,            \* position of the Task.run generator body
    t_err,           \* what Task.run raised
    t_total,         \* lines of the result file opened by Task.run
    t_yielded,       \* lines Task.run has yielded
    tpl_src,         \* the text a template object is constructed from
    tpl_kind,        \* its class: "TemplateEx" or "Template"
    tpl,             \* the template object: its template text and _defaults
    tpl_call,        \* the last call made on the template object
    tpl_out,         \* what that call returned or raised
    tpl_file,        \* the in-file that Task._write_in_file writes
    runs             \* two Task2.run invocations sharing a working directory

et_vars == <<et_args, et_iter, et_pc, return_code, outcome, err, et_total,
             et_yielded, exc>>
proc_vars == <<proc, exit_code, written, pipe, stdout_closed, spawned>>
worker_vars == <<worker, buffer, sink, warned, workers_started>>
task_vars == <<t_args, t_pc, t_err, t_total, t_yielded>>
tpl_vars == <<tpl_src, tpl_kind, tpl, tpl_call, tpl_out, tpl_file>>
vars == <<caller, files, plan, et_vars, proc_vars, worker_vars, task_vars,
          tpl_vars, runs>>

NoArgs == [in_file |-> NoFile, out_file |-> NoFile, cleanup_pattern |-> NoneV,
           raise_warnings |-> NoneV, stdout_to |-> NoneV]

NoTaskArgs == [params_ok |-> TRUE, file_stem |-> NoneV, ext |-> NoneV,
               do_cleanup |-> FALSE, raise_warnings |-> FALSE, stdout_to |-> NoneV]

\* no template object has been constructed, no call made on one
NoTemplate == [made |-> FALSE, template |-> << >>, defaults |-> << >>]
NoCall == [op |-> NoneV, given |-> FALSE, mapping |-> << >>, kwds |-> << >>,
           before |-> [exists |-> FALSE, text |-> << >>]]
NoOut == [kind |-> NoneV, text |-> << >>, key |-> << >>]

\* the in-file of a rendering: not there, or left by an earlier run
NoInFile == [exists |-> FALSE, text |-> << >>]
OldInFile == [exists |-> TRUE, text |-> <<"o">>]

IdleTemplate ==
    /\ tpl_src = << >> /\ tpl_kind = NoneV /\ tpl = NoTemplate
    /\ tpl_call = NoCall /\ tpl_out = NoOut /\ tpl_file = NoInFile

\* the two invocations, none of them made
RunIds == {1, 2}
NoRun == [pc |-> "unused", stem |-> NoneV, ext |-> NoneV, do_cleanup |-> FALSE,
          total |-> 0, yielded |-> 0, err |-> NoneV]
IdleRuns == runs = [i \in RunIds |-> NoRun]


(***************************************************************************)
(* The initial states: a client is about to call one entry point.          *)
(***************************************************************************)
InFileA == File("wd", "a", "in")
OtherStemFile == File("wd", "b", "out")
OutFiles == {File("wd", "a", "out"), File("od", "a", "out")}

\* the file the engine writes its result to: the name the in-file holds
EngineOutFile ==
    IF et_args.out_file # NoFile THEN et_args.out_file
    ELSE File(et_args.in_file.dir, et_args.in_file.stem, "out")

IdlePlan == [lines |-> << >>, makes_out |-> FALSE, rc |-> 0]

InitCommon ==
    /\ proc = "none" /\ exit_code = 0 /\ written = 0 /\ pipe = << >>
    /\ stdout_closed = FALSE /\ spawned = 0
    /\ worker = "none" /\ buffer = << >> /\ sink = << >> /\ warned = << >>
    /\ workers_started = 0
    /\ return_code = 0 /\ outcome = "Running" /\ err = NoErr
    /\ et_total = 0 /\ et_yielded = 0 /\ exc = NoneV
    /\ t_err = NoErr /\ t_total = 0 /\ t_yielded = 0

\* a client calls execute_task(in_file, out_file, cleanup_pattern,
\* raise_warnings, stdout_to) and iterates the generator it returns
InitExecuteTask ==
    /\ caller = "execute_task"
    /\ et_args \in [in_file : {InFileA}, out_file : OutFiles \cup {NoFile},
                    cleanup_pattern : Patterns \cup {NoneV},
                    raise_warnings : {"True", "False"},
                    stdout_to : {NoneV, "sink"}]
    /\ et_iter = TRUE /\ et_pc = "created"
    /\ plan \in Plans
    /\ \E in_exists \in BOOLEAN, stale_out \in BOOLEAN :
         /\ in_exists \/ plan = IdlePlan
         /\ files = [f \in AllFiles |->
                       IF f = et_args.in_file /\ in_exists THEN "given"
                       ELSE IF f = OtherStemFile THEN "stale"
                       ELSE IF f = EngineOutFile /\ stale_out THEN "stale"
                       ELSE "absent"]
    /\ t_args = NoTaskArgs /\ t_pc = "unused"
    /\ InitCommon
    /\ IdleTemplate /\ IdleRuns

(***************************************************************************)
(* jktebop.execute_task: the body of the generator, run by the thread that *)
(* iterates it.                                                            *)
(***************************************************************************)

\* execute_task_async with the process created before the in-file is checked
ET_Launch_SpawnFirst ==
    /\ et_pc = "created" /\ et_iter
    /\ proc' = "running"
    /\ spawned' = spawned + 1
    /\ IF files[et_args.in_file] = "absent"
       THEN /\ err' = FileNotFound(et_args.in_file)
            /\ et_pc' = "raised"
       ELSE /\ et_pc' = "start_worker"
            /\ UNCHANGED err
    /\ UNCHANGED <<tpl_vars, runs, caller, files, plan, et_args, et_iter, return_code, outcome,
                   et_total, et_yielded, exc, exit_code, written, pipe,
                   stdout_closed, worker_vars, task_vars>>

\* execute_task_async, entered from line 82 on the first next(): the
\* existence check, then Popen
ET_Launch ==
    /\ et_pc = "created" /\ et_iter
    /\ IF files[et_args.in_file] = "absent"
       THEN /\ err' = FileNotFound(et_args.in_file)
            /\ et_pc' = "raised"
            /\ UNCHANGED proc_vars
       ELSE /\ proc' = "running"
            /\ spawned' = spawned + 1
            /\ et_pc' = "start_worker"
            /\ UNCHANGED <<err, exit_code, written, pipe, stdout_closed>>
    /\ UNCHANGED <<tpl_vars, runs, caller, files, plan, et_args, et_iter, return_code, outcome,
                   et_total, et_yielded, exc, worker_vars, task_vars>>

\* stdout_thread = Thread(...); stdout_thread.start()
ET_StartWorker ==
    /\ et_pc = "start_worker"
    /\ worker' = "running"
    /\ workers_started' = workers_started + 1
    /\ et_pc' = "wait"
    /\ UNCHANGED <<tpl_vars, runs, caller, files, plan, et_args, et_iter, return_code, outcome,
                   err, et_total, et_yielded, exc, proc_vars, buffer, sink,
                   warned, task_vars>>

\* return_code = proc.wait()
ET_Wait ==
    /\ et_pc = "wait"
    /\ proc = "exited"
    /\ return_code' = exit_code
    /\ et_pc' = "join"
    /\ UNCHANGED <<tpl_vars, runs, caller, files, plan, et_args, et_iter, outcome, err,
                   et_total, et_yielded, exc, proc_vars, worker_vars, task_vars>>

\* the 'with' block left without joining the drain thread
ET_Join_NoJoin ==
    /\ et_pc = "join"
    /\ stdout_closed' = TRUE
    /\ et_pc' = "classify"
    /\ UNCHANGED <<tpl_vars, runs, caller, files, plan, et_args, et_iter, return_code, outcome,
                   err, et_total, et_yielded, exc, proc, exit_code, written,
                   pipe, spawned, worker_vars, task_vars>>

\* stdout_thread.join(), then the normal exit of the 'with' block:
\* Popen.__exit__ closes the pipe and waits for the (exited) process
ET_Join ==
    /\ et_pc = "join"
    /\ worker = "done"
    /\ stdout_closed' = TRUE
    /\ et_pc' = "classify"
    /\ UNCHANGED <<tpl_vars, runs, caller, files, plan, et_args, et_iter, return_code, outcome,
                   err, et_total, et_yielded, exc, proc, exit_code, written,
                   pipe, spawned, worker_vars, task_vars>>

\* the second and third disjunct of line 104, for an out_file that is a Path:
\* 'not out_file.exists() or "### ERROR" in output'
MissingOrMarker_NoMarker(out_file, output) == files[out_file] = "absent"
MissingOrMarker(out_file, output) ==
    files[out_file] = "absent" \/ HasMarker(output)

\* lines 103-107: output = my_stdout_to.getvalue(), then the test
\* 'return_code != 0 or not out_file.exists() or "### ERROR" in output',
\* evaluated left to right
ET_Classify ==
    /\ et_pc = "classify"
    /\ IF return_code # 0
       THEN /\ err' = CalledProcessError(return_code, Cmd(et_args.in_file), buffer)
            /\ outcome' = "Failed"
            /\ et_pc' = "raised"
       ELSE IF et_args.out_file = NoFile
       THEN \* None has no attribute 'exists'
            /\ err' = [NoErr EXCEPT !.type = "AttributeError"]
            /\ outcome' = "Error"
            /\ et_pc' = "raised"
       ELSE IF MissingOrMarker(et_args.out_file, buffer)
       THEN /\ err' = CalledProcessError(return_code, Cmd(et_args.in_file), buffer)
            /\ outcome' = "Failed"
            /\ et_pc' = "raised"
       ELSE /\ outcome' = "Succeeded"
            /\ et_pc' = "open"
            /\ UNCHANGED err
    /\ UNCHANGED <<tpl_vars, runs, caller, files, plan, et_args, et_iter, return_code,
                   et_total, et_yielded, exc, proc_vars, worker_vars, task_vars>>

\* lines 110-111: if out_file: open(out_file)
ET_Open ==
    /\ et_pc = "open"
    /\ IF et_args.out_file = NoFile
       THEN /\ et_total' = 0
            /\ et_pc' = "yield"
            /\ UNCHANGED err
       ELSE IF files[et_args.out_file] = "absent"
       THEN /\ err' = FileNotFound(et_args.out_file)
            /\ et_pc' = "raised"
            /\ UNCHANGED et_total
       ELSE /\ et_total' = ResultLines
            /\ et_pc' = "yield"
            /\ UNCHANGED err
    /\ UNCHANGED <<tpl_vars, runs, caller, files, plan, et_args, et_iter, return_code, outcome,
                   et_yielded, exc, proc_vars, worker_vars, task_vars>>

\* line 112: yield from of; one line handed to the consumer
ET_Yield ==
    /\ et_pc = "yield"
    /\ et_yielded < et_total
    /\ et_yielded' = et_yielded + 1
    /\ UNCHANGED <<tpl_vars, runs, caller, files, plan, et_args, et_iter, et_pc, return_code,
                   outcome, err, et_total, exc, proc_vars, worker_vars, task_vars>>

\* the directories the cleanup globs: [in_file.parent, out_file.parent]
CleanupParents_InOnly(in_file, out_file) == {in_file.dir}
CleanupParents(in_file, out_file) == {in_file.dir, out_file.dir}

\* the cleanup run as a 'finally': also after the failure was raised
ET_Cleanup_Finally ==
    /\ \/ et_pc = "yield" /\ et_yielded = et_total
       \/ et_pc = "raised" /\ outcome = "Failed"
    /\ files' = [f \in AllFiles |->
                   IF /\ Truthy(et_args.cleanup_pattern)
                      /\ f.dir \in CleanupParents(et_args.in_file, et_args.out_file)
                      /\ Matches(et_args.cleanup_pattern, f)
                   THEN "absent" ELSE files[f]]
    /\ et_pc' = "done"
    /\ UNCHANGED <<tpl_vars, runs, caller, plan, et_args, et_iter, return_code, outcome, err,
                   et_total, et_yielded, exc, proc_vars, worker_vars, task_vars>>

\* lines 114-118, reached by the next() that follows the last line
ET_Cleanup ==
    /\ et_pc = "yield"
    /\ et_yielded = et_total
    /\ IF ~Truthy(et_args.cleanup_pattern)
       THEN /\ et_pc' = "done"
            /\ UNCHANGED <<files, err>>
       ELSE IF et_args.out_file = NoFile
       THEN \* None has no attribute 'parent'
            /\ err' = [NoErr EXCEPT !.type = "AttributeError"]
            /\ et_pc' = "raised"
            /\ UNCHANGED files
       ELSE /\ files' = [f \in AllFiles |->
                           IF /\ f.dir \in CleanupParents(et_args.in_file, et_args.out_file)
                              /\ Matches(et_args.cleanup_pattern, f)
                           THEN "absent" ELSE files[f]]
            /\ et_pc' = "done"
            /\ UNCHANGED err
    /\ UNCHANGED <<tpl_vars, runs, caller, plan, et_args, et_iter, return_code, outcome,
                   et_total, et_yielded, exc, proc_vars, worker_vars, task_vars>>

\* a generator whose cleanup is a 'finally': run when the consumer drops it
ET_ConsumerStop_Finally ==
    /\ et_pc = "yield"
    /\ et_yielded >= 1
    /\ files' = [f \in AllFiles |->
                   IF /\ Truthy(et_args.cleanup_pattern)
                      /\ f.dir \in CleanupParents(et_args.in_file, et_args.out_file)
                      /\ Matches(et_args.cleanup_pattern, f)
                   THEN "absent" ELSE files[f]]
    /\ et_pc' = "closed"
    /\ UNCHANGED <<tpl_vars, runs, caller, plan, et_args, et_iter, return_code, outcome,
                   err, et_total, et_yielded, exc, proc_vars, worker_vars, task_vars>>

\* the consumer drops the generator while it is suspended at a yield:
\* GeneratorExit is raised at line 112, the 'with open' closes the file
ET_ConsumerStop ==
    /\ et_pc = "yield"
    /\ et_yielded >= 1
    /\ et_pc' = "closed"
    /\ UNCHANGED <<tpl_vars, runs, caller, files, plan, et_args, et_iter, return_code, outcome,
                   err, et_total, et_yielded, exc, proc_vars, worker_vars, task_vars>>

(***************************************************************************)
(* The engine process started by Popen, and the OS pipe.                   *)
(***************************************************************************)
\* the engine writes its next console line; the write blocks on a full pipe
EngineWrite ==
    /\ proc = "running"
    /\ ~stdout_closed
    /\ written < Len(plan.lines)
    /\ Len(pipe) < PipeCap
    /\ pipe' = Append(pipe, plan.lines[written + 1])
    /\ written' = written + 1
    /\ UNCHANGED <<tpl_vars, runs, caller, files, plan, et_vars, proc, exit_code, stdout_closed,
                   spawned, worker_vars, task_vars>>

\* the engine creates the result file named in its in-file
EngineCreateOut ==
    /\ proc = "running"
    /\ plan.makes_out
    /\ files[EngineOutFile] # "engine"
    /\ files' = [files EXCEPT ![EngineOutFile] = "engine"]
    /\ UNCHANGED <<tpl_vars, runs, caller, plan, et_vars, proc_vars, worker_vars, task_vars>>

\* the engine exits once it has done what it does
EngineExit ==
    /\ proc = "running"
    /\ written = Len(plan.lines)
    /\ plan.makes_out => files[EngineOutFile] = "engine"
    /\ proc' = "exited"
    /\ exit_code' = plan.rc
    /\ UNCHANGED <<tpl_vars, runs, caller, files, plan, et_vars, written, pipe, stdout_closed,
                   spawned, worker_vars, task_vars>>

(***************************************************************************)
(* The drain thread: capture_process_stdout.                               *)
(***************************************************************************)
\* a drain whose buffer does not pass anything on to the caller's sink
WorkerRead_NoForward ==
    /\ worker = "running"
    /\ ~stdout_closed
    /\ pipe # << >>
    /\ LET line == Head(pipe) IN
         /\ buffer' = Append(buffer, line)
         /\ warned' = IF Truthy(et_args.raise_warnings) /\ IsWarning(line)
                      THEN Append(warned, line) ELSE warned
    /\ pipe' = Tail(pipe)
    /\ UNCHANGED <<tpl_vars, runs, caller, files, plan, et_vars, proc, exit_code, written,
                   stdout_closed, spawned, worker, sink, workers_started,
                   task_vars>>

\* a drain that a warning ends, as an exception raised in the thread would
WorkerRead_StopOnWarning ==
    /\ worker = "running"
    /\ ~stdout_closed
    /\ pipe # << >>
    /\ LET line == Head(pipe)
           warns == Truthy(et_args.raise_warnings) /\ IsWarning(line)
       IN
         /\ buffer' = Append(buffer, line)
         /\ sink' = IF Truthy(et_args.stdout_to) THEN Append(sink, line) ELSE sink
         /\ warned' = IF warns THEN Append(warned, line) ELSE warned
         /\ worker' = IF warns THEN "done" ELSE worker
    /\ pipe' = Tail(pipe)
    /\ UNCHANGED <<tpl_vars, runs, caller, files, plan, et_vars, proc, exit_code, written,
                   stdout_closed, spawned, workers_started, task_vars>>

\* a drain that reads nothing until the process has exited
WorkerRead_AfterExit ==
    /\ worker = "running"
    /\ ~stdout_closed
    /\ proc = "exited"
    /\ pipe # << >>
    /\ LET line == Head(pipe) IN
         /\ buffer' = Append(buffer, line)
         /\ sink' = IF Truthy(et_args.stdout_to) THEN Append(sink, line) ELSE sink
         /\ warned' = IF Truthy(et_args.raise_warnings) /\ IsWarning(line)
                      THEN Append(warned, line) ELSE warned
    /\ pipe' = Tail(pipe)
    /\ UNCHANGED <<tpl_vars, runs, caller, files, plan, et_vars, proc, exit_code, written,
                   stdout_closed, spawned, worker, workers_started, task_vars>>

\* lines 88-94 for a line that is there: write it to the buffer (and through
\* PassThroughStringIO.write to the caller's sink), warn if asked to
WorkerRead ==
    /\ worker = "running"
    /\ ~stdout_closed
    /\ pipe # << >>
    /\ LET line == Head(pipe) IN
         /\ buffer' = Append(buffer, line)
         /\ sink' = IF Truthy(et_args.stdout_to) THEN Append(sink, line) ELSE sink
         /\ warned' = IF Truthy(et_args.raise_warnings) /\ IsWarning(line)
                      THEN Append(warned, line) ELSE warned
    /\ pipe' = Tail(pipe)
    /\ UNCHANGED <<tpl_vars, runs, caller, files, plan, et_vars, proc, exit_code, written,
                   stdout_closed, spawned, worker, workers_started, task_vars>>

\* lines 88-90 at end of stream: readline returns '' once the pipe is empty
\* and its write end is closed
WorkerEOF ==
    /\ worker = "running"
    /\ ~stdout_closed
    /\ pipe = << >>
    /\ proc = "exited"
    /\ worker' = "done"
    /\ UNCHANGED <<tpl_vars, runs, caller, files, plan, et_vars, proc_vars, buffer, sink,
                   warned, workers_started, task_vars>>

NextExecuteTask ==
    \/ ET_Launch
    \/ ET_StartWorker
    \/ ET_Wait
    \/ ET_Join
    \/ ET_Classify
    \/ ET_Open
    \/ ET_Yield
    \/ ET_Cleanup
    \/ ET_ConsumerStop
    \/ EngineWrite
    \/ EngineCreateOut
    \/ EngineExit
    \/ WorkerRead
    \/ WorkerEOF

(***************************************************************************)
(* Leaving the 'with' block of the Popen handle early.  Popen.__exit__     *)
(* closes the pipe; after a KeyboardInterrupt it returns without waiting   *)
(* for the process, after any other exception it waits for the process.    *)
(* It never signals the process.                                           *)
(***************************************************************************)
ExcKinds == {"error", "interrupt"}

\* an exception raised inside the block (lines 85-100): Thread.start failing,
\* or a KeyboardInterrupt while in proc.wait() or stdout_thread.join()
ET_BlockError(kind) ==
    /\ et_pc \in {"start_worker", "wait", "join"}
    /\ exc' = kind
    /\ et_pc' = "teardown"
    /\ UNCHANGED <<tpl_vars, runs, caller, files, plan, et_args, et_iter, return_code, outcome,
                   err, et_total, et_yielded, proc_vars, worker_vars, task_vars>>

\* Popen.__exit__, first half: self.stdout.close()
ET_TeardownClose ==
    /\ et_pc = "teardown"
    /\ stdout_closed' = TRUE
    /\ et_pc' = "teardown_wait"
    /\ UNCHANGED <<tpl_vars, runs, caller, files, plan, et_args, et_iter, return_code, outcome,
                   err, et_total, et_yielded, exc, proc, exit_code, written,
                   pipe, spawned, worker_vars, task_vars>>

\* Popen.__exit__, second half: return at once for a KeyboardInterrupt,
\* self.wait() otherwise; the exception then leaves execute_task
ET_TeardownWait ==
    /\ et_pc = "teardown_wait"
    /\ exc = "interrupt" \/ proc = "exited"
    /\ err' = [NoErr EXCEPT !.type = exc]
    /\ et_pc' = "abandoned"
    /\ UNCHANGED <<tpl_vars, runs, caller, files, plan, et_args, et_iter, return_code, outcome,
                   et_total, et_yielded, exc, proc_vars, worker_vars, task_vars>>

\* the drain thread's readline on the closed stream raises; the thread ends
WorkerClosed ==
    /\ worker = "running"
    /\ stdout_closed
    /\ worker' = "done"
    /\ UNCHANGED <<tpl_vars, runs, caller, files, plan, et_vars, proc_vars, buffer, sink,
                   warned, workers_started, task_vars>>

\* the engine writes to the pipe whose read end is closed: SIGPIPE ends it
EngineSigpipe ==
    /\ proc = "running"
    /\ stdout_closed
    /\ written < Len(plan.lines)
    /\ proc' = "exited"
    /\ exit_code' = -13
    /\ UNCHANGED <<tpl_vars, runs, caller, files, plan, et_vars, written, pipe, stdout_closed,
                   spawned, worker_vars, task_vars>>

NextAbandon ==
    \/ \E kind \in ExcKinds : ET_BlockError(kind)
    \/ ET_TeardownClose
    \/ ET_TeardownWait
    \/ WorkerClosed
    \/ EngineSigpipe

(***************************************************************************)
(* task.Task.run and task.Task2.run.                                       *)
(***************************************************************************)
WorkingDir == "wd"

TaskInFile == File(WorkingDir, t_args.file_stem, "in")

TaskResultFile ==
    IF Truthy(t_args.ext) THEN File(WorkingDir, t_args.file_stem, t_args.ext)
    ELSE NoFile

\* the engine runs the Task path is started with: none, or one console line
TaskPlans == {p \in Plans : Len(p.lines) = 0 \/ p.lines = <<"err">>}

\* a client calls Task.run or Task2.run(params, file_stem,
\* primary_result_file_ext, do_cleanup, raise_warnings, stdout_to) and
\* iterates the generator it returns
InitTask ==
    /\ caller \in {"Task.run", "Task2.run"}
    /\ t_args \in [params_ok : BOOLEAN, file_stem : {"a"},
                   ext : {NoneV, "out", "dat"}, do_cleanup : BOOLEAN,
                   raise_warnings : BOOLEAN, stdout_to : {NoneV, "sink"}]
    /\ t_pc = IF caller = "Task2.run" THEN "reserve" ELSE "created"
    /\ plan \in TaskPlans
    /\ \E stale \in SUBSET {File(WorkingDir, "a", "in"), File(WorkingDir, "a", "out"),
                            File(WorkingDir, "a", "dat"), File(WorkingDir, "a_r1", "in"),
                            File(WorkingDir, "a_r2", "dat")} :
         files = [f \in AllFiles |->
                    IF f \in stale \/ f = OtherStemFile THEN "stale" ELSE "absent"]
    /\ et_args = NoArgs /\ et_iter = FALSE /\ et_pc = "none"
    /\ InitCommon
    /\ IdleTemplate /\ IdleRuns

\* Task2.run lines 135-140: NamedTemporaryFile(dir=working_dir,
\* prefix=file_stem, suffix=".in", delete=False) creates a file under a name
\* that is not in use; its stem becomes the stem of the run
T2_Reserve ==
    /\ t_pc = "reserve"
    /\ \E s \in TempStems :
         /\ files[File(WorkingDir, s, "in")] = "absent"
         /\ files' = [files EXCEPT ![File(WorkingDir, s, "in")] = "reserved"]
         /\ t_args' = [t_args EXCEPT !.file_stem = s]
    /\ t_pc' = "created"
    /\ UNCHANGED <<tpl_vars, runs, caller, plan, et_vars, proc_vars, worker_vars, t_err,
                   t_total, t_yielded>>

\* a cleanup that removes the four kinds of file whatever their stem
CleanedUp_AnyStem(fs, stem) ==
    [f \in AllFiles |->
       IF f.dir = WorkingDir /\ f.ext \in CleanExts
       THEN "absent" ELSE fs[f]]

\* Task._cleanup_files: unlink(missing_ok=True) of <stem>.in/.par/.out/.fit
CleanedUp(fs, stem) ==
    [f \in AllFiles |->
       IF f.dir = WorkingDir /\ f.stem = stem /\ f.ext \in CleanExts
       THEN "absent" ELSE fs[f]]

\* Task.run line 77, on the first next()
T_PreClean ==
    /\ t_pc = "created"
    /\ files' = CleanedUp(files, t_args.file_stem)
    /\ t_pc' = "render"
    /\ UNCHANGED <<tpl_vars, runs, caller, plan, et_vars, proc_vars, worker_vars, t_args,
                   t_err, t_total, t_yielded>>

\* Task.run line 85, Task._write_in_file: the text is substituted first, so
\* a missing parameter raises KeyError before the file is touched
T_Render ==
    /\ t_pc = "render"
    /\ IF t_args.params_ok
       THEN /\ files' = [files EXCEPT ![TaskInFile] = "rendered"]
            /\ t_pc' = "call_et"
            /\ UNCHANGED t_err
       ELSE /\ t_err' = [NoErr EXCEPT !.type = "KeyError"]
            /\ t_pc' = "raised"
            /\ UNCHANGED files
    /\ UNCHANGED <<tpl_vars, runs, caller, plan, et_vars, proc_vars, worker_vars, t_args,
                   t_total, t_yielded>>

\* Task.run line 86: execute_task(in_file, result_file, raise_warnings,
\* stdout_to).  The four arguments are bound by position, and the call of a
\* generator function only creates the generator: nothing iterates it, so
\* none of its body runs.
T_CallExecuteTask ==
    /\ t_pc = "call_et"
    /\ et_args' = [in_file |-> TaskInFile, out_file |-> TaskResultFile,
                   cleanup_pattern |-> BoolStr(t_args.raise_warnings),
                   raise_warnings |-> t_args.stdout_to,
                   stdout_to |-> NoneV]
    /\ et_pc' = "created"
    /\ et_iter' = FALSE
    /\ t_pc' = "open"
    /\ UNCHANGED <<tpl_vars, runs, caller, files, plan, return_code, outcome, err, et_total,
                   et_yielded, exc, proc_vars, worker_vars, t_args, t_err,
                   t_total, t_yielded>>

\* Task.run lines 88-89: if result_file: open(result_file)
T_Open ==
    /\ t_pc = "open"
    /\ IF TaskResultFile = NoFile
       THEN /\ t_total' = 0
            /\ t_pc' = "yield"
            /\ UNCHANGED t_err
       ELSE IF files[TaskResultFile] = "absent"
       THEN /\ t_err' = FileNotFound(TaskResultFile)
            /\ t_pc' = "raised"
            /\ UNCHANGED t_total
       ELSE /\ t_total' = ResultLines
            /\ t_pc' = "yield"
            /\ UNCHANGED t_err
    /\ UNCHANGED <<tpl_vars, runs, caller, files, plan, et_vars, proc_vars, worker_vars,
                   t_args, t_yielded>>

\* Task.run line 90: yield from of
T_Yield ==
    /\ t_pc = "yield"
    /\ t_yielded < t_total
    /\ t_yielded' = t_yielded + 1
    /\ UNCHANGED <<tpl_vars, runs, caller, files, plan, et_vars, proc_vars, worker_vars,
                   t_args, t_pc, t_err, t_total>>

\* a cleanup that does not look at do_cleanup
T_Cleanup_Always ==
    /\ t_pc = "yield"
    /\ t_yielded = t_total
    /\ files' = CleanedUp(files, t_args.file_stem)
    /\ t_pc' = "done"
    /\ UNCHANGED <<tpl_vars, runs, caller, plan, et_vars, proc_vars, worker_vars,
                   t_args, t_err, t_total, t_yielded>>

\* Task.run lines 92-93, reached by the next() that follows the last line
T_Cleanup ==
    /\ t_pc = "yield"
    /\ t_yielded = t_total
    /\ files' = IF t_args.do_cleanup THEN CleanedUp(files, t_args.file_stem)
                ELSE files
    /\ t_pc' = "done"
    /\ UNCHANGED <<tpl_vars, runs, caller, plan, et_vars, proc_vars, worker_vars, t_args,
                   t_err, t_total, t_yielded>>

\* the consumer drops Task.run's generator while it is suspended at a yield
T_ConsumerStop ==
    /\ t_pc = "yield"
    /\ t_yielded >= 1
    /\ t_pc' = "closed"
    /\ UNCHANGED <<tpl_vars, runs, caller, files, plan, et_vars, proc_vars, worker_vars,
                   t_args, t_err, t_total, t_yielded>>

NextTask ==
    \/ T2_Reserve
    \/ T_PreClean
    \/ T_Render
    \/ T_CallExecuteTask
    \/ T_Open
    \/ T_Yield
    \/ T_Cleanup
    \/ T_ConsumerStop

Init == InitExecuteTask \/ InitTask
Next == NextExecuteTask \/ NextTask
Spec == Init /\ [][Next]_vars

\* the same program, with exceptions raised inside the 'with' block
SpecAbandon == Init /\ [][Next \/ NextAbandon]_vars

(***************************************************************************)
(* templateex.TemplateEx.  A text is a sequence of one-character strings.  *)
(***************************************************************************)
\* the longest template text is made of this many pieces
MaxTokens == 3

\* [_a-z] and [_a-z0-9] of Template.idpattern, for the characters used here
IdStart == {"_", "a", "b", "d"}
IdChars == IdStart \cup {"1"}

\* the pieces template texts are made of: "$a", "${a}", "${a|d}", "${a|}",
\* "$$", "$", "{a|d}", " " and "b"
Tokens == { <<"$", "a">>,
            <<"$", "{", "a", "}">>,
            <<"$", "{", "a", "|", "d", "}">>,
            <<"$", "{", "a", "|", "}">>,
            <<"$", "$">>,
            <<"$">>,
            <<"{", "a", "|", "d", "}">>,
            <<" ">>,
            <<"b">> }

RECURSIVE Concat(_)
Concat(ts) == IF ts = << >> THEN << >> ELSE Head(ts) \o Concat(Tail(ts))

Texts == {Concat(ts) : ts \in SeqsUpTo(Tokens, MaxTokens)}

\* the values a caller passes: str(value) is what substitution inserts
StrV(text) == [t |-> "str", v |-> text]
IntV(n) == [t |-> "int", v |-> n]
NoneValue == [t |-> "none", v |-> << >>]

DigitChars == <<"0", "1", "2", "3", "4", "5", "6", "7", "8", "9">>

RECURSIVE Str(_)
Str(val) ==
    IF val.t = "str" THEN val.v
    ELSE IF val.v < 10 THEN <<DigitChars[val.v + 1]>>
    ELSE Str(IntV(val.v \div 10)) \o <<DigitChars[(val.v % 10) + 1]>>

NameA == <<"a">>
NameB == <<"b">>
\* a key that differs from the identifier a in letter case only
NameUpperA == <<"A">>

\* the explicit mapping argument: not given, or a dict
Mappings == { [given |-> FALSE, m |-> << >>],
              [given |-> TRUE, m |-> << >>],
              [given |-> TRUE, m |-> NameA :> IntV(1)],
              [given |-> TRUE, m |-> (NameA :> IntV(1)) @@ (NameB :> StrV(<<"X">>))] }

\* the keyword arguments
Kwds == { << >>, NameA :> StrV(<<"Y">>) }

\* mappings and keyword arguments with a key in another letter case
CaseMappings == { [given |-> FALSE, m |-> << >>],
                  [given |-> TRUE, m |-> NameUpperA :> StrV(<<"Z">>)],
                  [given |-> TRUE, m |-> (NameB :> IntV(1)) @@ (NameUpperA :> StrV(<<"Z">>))] }

CaseKwds == { << >>, NameUpperA :> StrV(<<"Z">>) }

\* the character at index i, "" past the end of the text
At(s, i) == IF i \in DOMAIN s THEN s[i] ELSE ""

\* the last index of the identifier that starts at i: the pattern is greedy
RECURSIVE IdEnd(_, _)
IdEnd(s, i) == IF At(s, i + 1) \in IdChars THEN IdEnd(s, i + 1) ELSE i

\* the index of the first '}' at or after i, 0 when there is none
RECURSIVE FirstClose(_, _)
FirstClose(s, i) ==
    IF i > Len(s) THEN 0
    ELSE IF s[i] = "}" THEN i
    ELSE FirstClose(s, i + 1)

NoMatch == [group |-> NoneV, end |-> 0, name |-> << >>, default |-> << >>]

\* pattern_for_defaults tried at index i: \$\{(name)\|(default [^}]*)\}
DefaultsMatch(s, i) ==
    IF At(s, i) = "$" /\ At(s, i + 1) = "{" /\ At(s, i + 2) \in IdStart
    THEN LET j == IdEnd(s, i + 2)
             k == FirstClose(s, j + 2)
         IN IF At(s, j + 1) = "|" /\ k # 0
            THEN [group |-> "default", end |-> k, name |-> SubSeq(s, i + 2, j),
                  default |-> SubSeq(s, j + 2, k - 1)]
            ELSE NoMatch
    ELSE NoMatch

\* __init__ lines 37-40: pattern_for_defaults.finditer from index i on; the
\* first default found for a name is kept
RECURSIVE RecordDefaults(_, _, _)
RecordDefaults(s, i, defaults) ==
    IF i > Len(s) THEN defaults
    ELSE LET mo == DefaultsMatch(s, i) IN
         IF mo = NoMatch THEN RecordDefaults(s, i + 1, defaults)
         ELSE RecordDefaults(s, mo.end + 1,
                             IF mo.name \in DOMAIN defaults THEN defaults
                             ELSE defaults @@ (mo.name :> mo.default))

\* __init__ line 43: pattern_for_defaults.sub("${\g<name>}", template)
RECURSIVE SubDefaults(_, _)
SubDefaults(s, i) ==
    IF i > Len(s) THEN << >>
    ELSE LET mo == DefaultsMatch(s, i) IN
         IF mo = NoMatch THEN <<s[i]>> \o SubDefaults(s, i + 1)
         ELSE <<"$", "{">> \o mo.name \o <<"}">> \o SubDefaults(s, mo.end + 1)

\* Template.pattern tried at a '$' at index i: escaped, named, braced or
\* invalid, in that order
TemplateMatch(s, i) ==
    IF At(s, i + 1) = "$"
    THEN [NoMatch EXCEPT !.group = "escaped", !.end = i + 1]
    ELSE IF At(s, i + 1) \in IdStart
    THEN [NoMatch EXCEPT !.group = "named", !.end = IdEnd(s, i + 1),
                         !.name = SubSeq(s, i + 1, IdEnd(s, i + 1))]
    ELSE IF /\ At(s, i + 1) = "{" /\ At(s, i + 2) \in IdStart
            /\ At(s, IdEnd(s, i + 2) + 1) = "}"
    THEN [NoMatch EXCEPT !.group = "braced", !.end = IdEnd(s, i + 2) + 1,
                         !.name = SubSeq(s, i + 2, IdEnd(s, i + 2))]
    ELSE [NoMatch EXCEPT !.group = "invalid", !.end = i]

\* what a call returns or raises
TextOut(text) == [kind |-> "text", text |-> text, key |-> << >>]
KeyError(name) == [kind |-> "KeyError", text |-> << >>, key |-> name]
ValueError == [kind |-> "ValueError", text |-> << >>, key |-> << >>]

\* text put in front of what the rest of the scan gives; an error raised by
\* the rest of the scan is the result
Before(text, rest) ==
    IF rest.kind = "text" THEN TextOut(text \o rest.text) ELSE rest

\* collections.ChainMap(first, second): the first mapping that has the key
ChainMap(first, second) ==
    [x \in DOMAIN first \cup DOMAIN second |->
       IF x \in DOMAIN first THEN first[x] ELSE second[x]]

\* a name with its letters in lower case
CaseFold(name) == [i \in DOMAIN name |-> IF name[i] = "A" THEN "a" ELSE name[i]]

\* a conversion that looks the identifier up without regard to letter case
RECURSIVE Convert_FoldCase(_, _, _, _)
Convert_FoldCase(s, i, mapping, safe) ==
    IF i > Len(s) THEN TextOut(<< >>)
    ELSE IF s[i] # "$"
    THEN Before(<<s[i]>>, Convert_FoldCase(s, i + 1, mapping, safe))
    ELSE LET mo == TemplateMatch(s, i)
             rest == Convert_FoldCase(s, mo.end + 1, mapping, safe)
             keys == {k \in DOMAIN mapping : CaseFold(k) = CaseFold(mo.name)}
         IN IF mo.group = "escaped" THEN Before(<<"$">>, rest)
            ELSE IF mo.group = "invalid"
            THEN IF safe THEN Before(<<"$">>, rest) ELSE ValueError
            ELSE IF keys # {}
            THEN Before(Str(mapping[CHOOSE k \in keys : TRUE]), rest)
            ELSE IF safe THEN Before(SubSeq(s, i, mo.end), rest)
            ELSE KeyError(mo.name)

\* a conversion in which safe_substitute raises at an invalid '$' as well
RECURSIVE Convert_InvalidRaises(_, _, _, _)
Convert_InvalidRaises(s, i, mapping, safe) ==
    IF i > Len(s) THEN TextOut(<< >>)
    ELSE IF s[i] # "$"
    THEN Before(<<s[i]>>, Convert_InvalidRaises(s, i + 1, mapping, safe))
    ELSE LET mo == TemplateMatch(s, i)
             rest == Convert_InvalidRaises(s, mo.end + 1, mapping, safe)
         IN IF mo.group = "escaped" THEN Before(<<"$">>, rest)
            ELSE IF mo.group = "invalid" THEN ValueError
            ELSE IF mo.name \in DOMAIN mapping
            THEN Before(Str(mapping[mo.name]), rest)
            ELSE IF safe THEN Before(SubSeq(s, i, mo.end), rest)
            ELSE KeyError(mo.name)

\* Template.substitute / safe_substitute: pattern.sub(convert, template) from
\* index i on; convert raises at the first match it cannot convert
RECURSIVE Convert(_, _, _, _)
Convert(s, i, mapping, safe) ==
    IF i > Len(s) THEN TextOut(<< >>)
    ELSE IF s[i] # "$" THEN Before(<<s[i]>>, Convert(s, i + 1, mapping, safe))
    ELSE LET mo == TemplateMatch(s, i)
             rest == Convert(s, mo.end + 1, mapping, safe)
         IN IF mo.group = "escaped" THEN Before(<<"$">>, rest)
            ELSE IF mo.group = "invalid"
            THEN IF safe THEN Before(<<"$">>, rest) ELSE ValueError
            ELSE IF mo.name \in DOMAIN mapping
            THEN Before(Str(mapping[mo.name]), rest)
            ELSE IF safe THEN Before(SubSeq(s, i, mo.end), rest)
            ELSE KeyError(mo.name)

\* Template.substitute(mapping, **kws): keyword arguments come first
TemplateSubstitute(template, mapping, kwds, safe) ==
    Convert(template, 1,
            IF kwds # << >> THEN ChainMap(kwds, mapping) ELSE mapping, safe)

\* _defaults as the mapping of values that substitution looks up
DefaultValues(defaults) == [x \in DOMAIN defaults |-> StrV(defaults[x])]

\* TemplateEx.substitute and TemplateEx.safe_substitute, lines 46-60
TemplateExSubstitute(t, given, mapping, kwds, safe) ==
    TemplateSubstitute(t.template,
                       IF ~given THEN DefaultValues(t.defaults)
                       ELSE ChainMap(mapping, DefaultValues(t.defaults)),
                       kwds, safe)

Range(seq) == {seq[i] : i \in DOMAIN seq}

\* get_template_identifiers lines 79-91: the names of the named and braced
\* matches from index i on, each the first time it appears
RECURSIVE GetTemplateIdentifiers(_, _, _)
GetTemplateIdentifiers(s, i, ids) ==
    IF i > Len(s) THEN ids
    ELSE IF s[i] # "$" THEN GetTemplateIdentifiers(s, i + 1, ids)
    ELSE LET mo == TemplateMatch(s, i) IN
         GetTemplateIdentifiers(s, mo.end + 1,
             IF mo.group \in {"named", "braced"} /\ mo.name \notin Range(ids)
             THEN Append(ids, mo.name) ELSE ids)

\* get_identifiers_and_defaults: the dict as its items, in insertion order
GetIdentifiersAndDefaults(t) ==
    LET ids == GetTemplateIdentifiers(t.template, 1, << >>) IN
    [i \in DOMAIN ids |->
       <<ids[i], IF ids[i] \in DOMAIN t.defaults THEN StrV(t.defaults[ids[i]])
                 ELSE NoneValue>>]

\* Task.__init__ lines 35-39: default_params for either class of template
DefaultParams(kind, t) ==
    IF kind = "TemplateEx" THEN GetIdentifiersAndDefaults(t)
    ELSE LET ids == GetTemplateIdentifiers(t.template, 1, << >>) IN
         [i \in DOMAIN ids |-> <<ids[i], NoneValue>>]

\* a client is about to construct a template object from a text
InitTemplate ==
    /\ caller = "Template"
    /\ tpl_src \in Texts
    /\ tpl_kind \in {"TemplateEx", "Template"}
    /\ tpl = NoTemplate /\ tpl_call = NoCall /\ tpl_out = NoOut
    /\ tpl_file = NoInFile
    /\ files = [f \in AllFiles |-> "absent"] /\ plan = IdlePlan
    /\ et_args = NoArgs /\ et_iter = FALSE /\ et_pc = "none"
    /\ t_args = NoTaskArgs /\ t_pc = "unused"
    /\ InitCommon /\ IdleRuns

\* TemplateEx(template), lines 27-44
TE_Init ==
    /\ tpl_kind = "TemplateEx" /\ ~tpl.made
    /\ tpl' = [made |-> TRUE, template |-> SubDefaults(tpl_src, 1),
               defaults |-> RecordDefaults(tpl_src, 1, << >>)]
    /\ UNCHANGED <<caller, files, plan, et_vars, proc_vars, worker_vars,
                   task_vars, tpl_src, tpl_kind, tpl_call, tpl_out, tpl_file,
                   runs>>

\* string.Template(template), the base constructor: the text is kept as it is
Template_Init ==
    /\ tpl_kind = "Template" /\ ~tpl.made
    /\ tpl' = [made |-> TRUE, template |-> tpl_src, defaults |-> << >>]
    /\ UNCHANGED <<caller, files, plan, et_vars, proc_vars, worker_vars,
                   task_vars, tpl_src, tpl_kind, tpl_call, tpl_out, tpl_file,
                   runs>>

\* a call of substitute (safe = FALSE) or safe_substitute (safe = TRUE) with
\* a mapping and keyword arguments out of the given sets
SubstituteCall(safe, mappings, kwdss) ==
    /\ tpl_kind = "TemplateEx" /\ tpl.made
    /\ \E a \in mappings, kwds \in kwdss :
         /\ tpl_call' = [NoCall EXCEPT
                           !.op = IF safe THEN "safe_substitute" ELSE "substitute",
                           !.given = a.given, !.mapping = a.m, !.kwds = kwds]
         /\ tpl_out' = TemplateExSubstitute(tpl, a.given, a.m, kwds, safe)
    /\ UNCHANGED <<caller, files, plan, et_vars, proc_vars, worker_vars,
                   task_vars, tpl_src, tpl_kind, tpl, tpl_file, runs>>

\* template.substitute(mapping, **kwds) or template.substitute(**kwds)
TE_Substitute == SubstituteCall(FALSE, Mappings, Kwds)

\* template.safe_substitute(mapping, **kwds)
TE_SafeSubstitute == SubstituteCall(TRUE, Mappings, Kwds)

\* the two calls with a key that differs from an identifier in case only
TE_SubstituteCase == SubstituteCall(FALSE, CaseMappings, CaseKwds)

TE_SafeSubstituteCase == SubstituteCall(TRUE, CaseMappings, CaseKwds)

\* Task(working_dir, template).default_params
Task_Init ==
    /\ tpl.made
    /\ tpl_call' = [NoCall EXCEPT !.op = "default_params"]
    /\ tpl_out' = [kind |-> "dict", items |-> DefaultParams(tpl_kind, tpl)]
    /\ UNCHANGED <<caller, files, plan, et_vars, proc_vars, worker_vars,
                   task_vars, tpl_src, tpl_kind, tpl, tpl_file, runs>>

NextTemplate ==
    \/ TE_Init
    \/ Template_Init
    \/ TE_Substitute
    \/ TE_SafeSubstitute
    \/ Task_Init

SpecTemplate == InitTemplate /\ [][NextTemplate]_vars

NextCase ==
    \/ TE_Init
    \/ Template_Init
    \/ TE_SubstituteCase
    \/ TE_SafeSubstituteCase

SpecCase == InitTemplate /\ [][NextCase]_vars

(***************************************************************************)
(* task.Task._write_in_file on a Task made with either class of template.  *)
(***************************************************************************)
\* a client is about to make a Task with a template and render in-files
InitRender ==
    /\ caller = "Task._write_in_file"
    /\ tpl_src \in Texts
    /\ tpl_kind \in {"TemplateEx", "Template"}
    /\ tpl = NoTemplate /\ tpl_call = NoCall /\ tpl_out = NoOut
    /\ tpl_file \in {NoInFile, OldInFile}
    /\ files = [f \in AllFiles |-> "absent"] /\ plan = IdlePlan
    /\ et_args = NoArgs /\ et_iter = FALSE /\ et_pc = "none"
    /\ t_args = NoTaskArgs /\ t_pc = "unused"
    /\ InitCommon /\ IdleRuns

\* the dicts passed as params
Params == {a.m : a \in {b \in Mappings : b.given}}

\* self._template.substitute(params) for either class of template
TaskSubstitute(kind, t, params) ==
    IF kind = "TemplateEx" THEN TemplateExSubstitute(t, TRUE, params, << >>, FALSE)
    ELSE TemplateSubstitute(t.template, params, << >>, FALSE)

\* filename.write_text(text): substitute has returned before the file is
\* opened, so when it raises nothing is written
WriteText(file, out) ==
    IF out.kind = "text" THEN [exists |-> TRUE, text |-> out.text] ELSE file

\* Task._write_in_file(filename, params), line 97
Task_WriteInFile ==
    /\ tpl.made
    /\ \E params \in Params :
         /\ tpl_call' = [NoCall EXCEPT !.op = "write_in_file", !.given = TRUE,
                                        !.mapping = params, !.before = tpl_file]
         /\ tpl_out' = TaskSubstitute(tpl_kind, tpl, params)
         /\ tpl_file' = WriteText(tpl_file, TaskSubstitute(tpl_kind, tpl, params))
    /\ UNCHANGED <<caller, files, plan, et_vars, proc_vars, worker_vars,
                   task_vars, tpl_src, tpl_kind, tpl, runs>>

NextRender ==
    \/ TE_Init
    \/ Template_Init
    \/ Task_WriteInFile

SpecRender == InitRender /\ [][NextRender]_vars

(***************************************************************************)
(* Two clients call Task2.run with the same file prefix on one working     *)
(* directory, and iterate the generators; the steps of the two interleave. *)
(***************************************************************************)
RunInFile(r) == File(WorkingDir, r.stem, "in")

RunResultFile(r) ==
    IF Truthy(r.ext) THEN File(WorkingDir, r.stem, r.ext) ELSE NoFile

InitPair ==
    /\ caller = "Task2.run x 2"
    /\ runs \in [RunIds -> [pc : {"reserve"}, stem : {NoneV},
                            ext : {NoneV, "out", "dat"}, do_cleanup : BOOLEAN,
                            total : {0}, yielded : {0}, err : {NoneV}]]
    /\ \E stale \in SUBSET {File(WorkingDir, "a_r1", "dat"),
                            File(WorkingDir, "a_r2", "dat"),
                            File(WorkingDir, "a_r1", "out")} :
         files = [f \in AllFiles |-> IF f \in stale THEN "stale" ELSE "absent"]
    /\ plan = IdlePlan
    /\ et_args = NoArgs /\ et_iter = FALSE /\ et_pc = "none"
    /\ t_args = NoTaskArgs /\ t_pc = "unused"
    /\ InitCommon /\ IdleTemplate

\* Task2.run lines 135-140 of invocation i
P_Reserve(i) ==
    /\ runs[i].pc = "reserve"
    /\ \E s \in TempStems :
         /\ files[File(WorkingDir, s, "in")] = "absent"
         /\ files' = [files EXCEPT ![File(WorkingDir, s, "in")] = "reserved"]
         /\ runs' = [runs EXCEPT ![i].stem = s, ![i].pc = "created"]
    /\ UNCHANGED <<caller, plan, et_vars, proc_vars, worker_vars, task_vars,
                   tpl_vars>>

\* Task.run line 77 of invocation i, on the first next()
P_PreClean(i) ==
    /\ runs[i].pc = "created"
    /\ files' = CleanedUp(files, runs[i].stem)
    /\ runs' = [runs EXCEPT ![i].pc = "render"]
    /\ UNCHANGED <<caller, plan, et_vars, proc_vars, worker_vars, task_vars,
                   tpl_vars>>

\* Task.run lines 85-86 of invocation i: the in-file is written, and the
\* execute_task generator is created and dropped
P_Render(i) ==
    /\ runs[i].pc = "render"
    /\ files' = [files EXCEPT ![RunInFile(runs[i])] = "rendered"]
    /\ runs' = [runs EXCEPT ![i].pc = "open"]
    /\ UNCHANGED <<caller, plan, et_vars, proc_vars, worker_vars, task_vars,
                   tpl_vars>>

\* Task.run lines 88-89 of invocation i
P_Open(i) ==
    /\ runs[i].pc = "open"
    /\ runs' = IF RunResultFile(runs[i]) = NoFile
               THEN [runs EXCEPT ![i].pc = "yield"]
               ELSE IF files[RunResultFile(runs[i])] = "absent"
               THEN [runs EXCEPT ![i].pc = "raised",
                                 ![i].err = "FileNotFoundError"]
               ELSE [runs EXCEPT ![i].pc = "yield", ![i].total = ResultLines]
    /\ UNCHANGED <<caller, files, plan, et_vars, proc_vars, worker_vars,
                   task_vars, tpl_vars>>

\* Task.run line 90 of invocation i
P_Yield(i) ==
    /\ runs[i].pc = "yield"
    /\ runs[i].yielded < runs[i].total
    /\ runs' = [runs EXCEPT ![i].yielded = @ + 1]
    /\ UNCHANGED <<caller, files, plan, et_vars, proc_vars, worker_vars,
                   task_vars, tpl_vars>>

\* Task.run lines 92-93 of invocation i
P_Cleanup(i) ==
    /\ runs[i].pc = "yield"
    /\ runs[i].yielded = runs[i].total
    /\ files' = IF runs[i].do_cleanup THEN CleanedUp(files, runs[i].stem)
                ELSE files
    /\ runs' = [runs EXCEPT ![i].pc = "done"]
    /\ UNCHANGED <<caller, plan, et_vars, proc_vars, worker_vars, task_vars,
                   tpl_vars>>

NextPair ==
    \E i \in RunIds :
        \/ P_Reserve(i)
        \/ P_PreClean(i)
        \/ P_Render(i)
        \/ P_Open(i)
        \/ P_Yield(i)
        \/ P_Cleanup(i)

SpecPair == InitPair /\ [][NextPair]_vars

(***************************************************************************)
(* execute_task under fair scheduling: the thread that iterates the        *)
(* generator, the engine process and the drain thread each keep running    *)
(* while they have a step to take.  The consumer's later next() calls and  *)
(* its close() are left to the consumer.                                   *)
(***************************************************************************)
\* lines 82-107 as run by the first next(): the calling thread
CallingThread ==
    ET_Launch \/ ET_StartWorker \/ ET_Wait \/ ET_Join \/ ET_Classify

\* the engine process
EngineProcess == EngineWrite \/ EngineCreateOut \/ EngineExit

\* the drain thread, lines 85-97
DrainThread == WorkerRead \/ WorkerEOF

SpecLive ==
    /\ InitExecuteTask
    /\ [][NextExecuteTask]_vars
    /\ WF_vars(CallingThread)
    /\ WF_vars(EngineProcess)
    /\ WF_vars(DrainThread)

(***************************************************************************)
(* The properties.                                                         *)
(***************************************************************************)
\* the run of execute_task that the client iterates has been classified
Classified == et_iter /\ outcome # "Running"

\* the text the engine has written to its merged stdout/stderr
EngineText == SubSeq(plan.lines, 1, written)

\* C1: for an execute_task run with an out-file given, the run ends Failed
\* (CalledProcessError raised) if and only if the exit code is non-zero, or
\* the out-file does not exist, or the captured console text holds the
\* '### ERROR' marker; otherwise it ends Succeeded.
C1_FailedIffAnyCondition ==
    (Classified /\ et_args.out_file # NoFile /\ et_pc \in {"open", "raised"}) =>
        /\ outcome \in {"Succeeded", "Failed"}
        /\ (outcome = "Failed") <=>
               \/ exit_code # 0
               \/ files[et_args.out_file] = "absent"
               \/ \E i \in DOMAIN buffer : buffer[i] = "err"
        /\ (outcome = "Failed") <=>
               (et_pc = "raised" /\ err.type = "CalledProcessError")
        /\ (outcome = "Succeeded") <=> (et_pc = "open" /\ err = NoErr)

\* exit code 0 and the out-file present: the marker alone gives Failed
C1_Witness ==
    /\ Classified /\ et_pc = "raised" /\ outcome = "Failed"
    /\ exit_code = 0
    /\ et_args.out_file # NoFile
    /\ files[et_args.out_file] # "absent"
    /\ HasMarker(buffer)

\* C2: at the moment the outcome is classified every line the engine wrote
\* before it exited is in the diagnostic buffer, in the order written: an
\* engine that writes N lines and exits gives exactly N buffered lines.
C2_DrainComplete ==
    Classified =>
        /\ proc = "exited"
        /\ written = Len(plan.lines)
        /\ buffer = plan.lines

\* an engine that wrote more lines than the pipe holds has been classified
C2_Witness ==
    /\ Classified
    /\ Len(plan.lines) > PipeCap
    /\ buffer = plan.lines
    /\ \E i \in DOMAIN buffer : buffer[i] # buffer[1]

\* C5: neither the step by which execute_task or Task.run fails, nor any
\* step taken once it has failed, removes a file that is in the working
\* directory.
C5_NoDeletionOnFailure ==
    [][(\/ et_pc' = "raised" \/ t_pc' = "raised"
        \/ et_pc = "raised" \/ t_pc = "raised") =>
          \A f \in AllFiles : files[f] # "absent" => files'[f] # "absent"]_vars

\* a classification failure with a cleanup pattern given, whose files are
\* all still there
C5_Witness ==
    /\ et_iter /\ et_pc = "raised" /\ outcome = "Failed"
    /\ Truthy(et_args.cleanup_pattern)
    /\ et_args.out_file # NoFile
    /\ files[et_args.in_file] # "absent"
    /\ files[et_args.out_file] # "absent"
    /\ Matches(et_args.cleanup_pattern, et_args.out_file)

\* C6: after a successful execute_task consumed to the end, with a cleanup
\* pattern no file matching it remains in the in-file's or the out-file's
\* parent directory; without one the in-file and the out-file still exist.
C6_CleanupLaw ==
    (et_iter /\ et_pc = "done" /\ et_args.out_file # NoFile) =>
        IF et_args.cleanup_pattern # NoneV
        THEN \A f \in AllFiles :
                 (/\ f.dir \in {et_args.in_file.dir, et_args.out_file.dir}
                  /\ Matches(et_args.cleanup_pattern, f))
                 => files[f] = "absent"
        ELSE /\ files[et_args.in_file] # "absent"
             /\ files[et_args.out_file] # "absent"

\* a consumed run with a pattern that matches the out-file, which lies in
\* another directory than the in-file
C6_Witness ==
    /\ et_iter /\ et_pc = "done"
    /\ et_yielded = ResultLines
    /\ et_args.cleanup_pattern = "*.out"
    /\ et_args.out_file.dir # et_args.in_file.dir
    /\ files[et_args.out_file] = "absent"

\* C7: when the in-file does not exist, the first step of execute_task (of
\* execute_task_async) raises FileNotFoundError naming the in-file, and no
\* engine process is spawned and no drain thread is started in that run.
C7_MissingInFile ==
    /\ [][(et_iter /\ et_pc = "created" /\ et_pc' # "created"
           /\ files[et_args.in_file] = "absent") =>
             /\ et_pc' = "raised"
             /\ err'.type = "FileNotFoundError"
             /\ err'.filename = et_args.in_file
             /\ spawned' = 0 /\ proc' = "none"]_vars
    /\ []((et_iter /\ err.type = "FileNotFoundError" /\ outcome = "Running") =>
             /\ spawned = 0 /\ proc = "none"
             /\ workers_started = 0 /\ worker = "none")

\* execute_task has raised FileNotFoundError for its in-file
C7_Witness ==
    /\ et_iter /\ et_pc = "raised"
    /\ err = FileNotFound(et_args.in_file)
    /\ files[et_args.in_file] = "absent"

\* C10: a failure raised by the outcome classification carries the exit code
\* of the process, the command line ['./jktebop', <in-file base name>] and,
\* as its output, the whole text the engine wrote during the invocation.
C10_FailureCarries ==
    (et_iter /\ et_pc = "raised" /\ outcome = "Failed") =>
        /\ err.type = "CalledProcessError"
        /\ err.returncode = exit_code
        /\ err.cmd = <<"./jktebop",
                       [stem |-> et_args.in_file.stem, ext |-> et_args.in_file.ext]>>
        /\ err.output = EngineText
        /\ written = Len(plan.lines)

\* a failure with a non-zero exit code and as many lines as an engine writes
C10_Witness ==
    /\ et_iter /\ et_pc = "raised" /\ outcome = "Failed"
    /\ exit_code # 0
    /\ Len(err.output) = MaxLines

\* Task.run's generator has returned or raised, or is suspended at a yield
TaskRunActed == t_pc \in {"yield", "done", "closed", "raised"}

\* the engine run that the plan describes fails by its exit code or by the
\* error marker
PlanFails == plan.rc # 0 \/ HasMarker(plan.lines)

\* C3: a Task.run consumed to the end has launched the engine exactly once,
\* after the in-file was rendered and before the result file was opened;
\* Task.run reads no result file unless execute_task has run for its in-file.
C3_TaskRunLaunchesOnce ==
    /\ (t_pc = "done") => (spawned = 1 /\ proc = "exited")
    /\ (t_pc \in {"yield", "done", "closed"} /\ t_total > 0) =>
           (et_args.in_file = TaskInFile /\ et_pc \notin {"none", "created"})

\* C4: when the engine run of a Task.run or Task2.run fails, the caller gets
\* the CalledProcessError that carries the captured console text; it gets no
\* other error and no line sequence.
C4_TaskFailurePropagates ==
    (caller \in {"Task.run", "Task2.run"} /\ t_args.params_ok /\ PlanFails
     /\ TaskRunActed) =>
        /\ t_pc = "raised"
        /\ t_err.type = "CalledProcessError"
        /\ t_err.output = plan.lines
        /\ t_yielded = 0

\* C8: once the 'with' block of the handle has been left early, the teardown
\* has terminated the engine: it is not left waiting for a running engine,
\* and no engine is running after the block.
C8_TeardownTerminates ==
    (et_pc \in {"teardown_wait", "abandoned"}) => proc # "running"

\* C9: execute_task without an out-file, the engine exiting with code 0 and
\* no error marker, is classified Succeeded and yields no line; it raises
\* nothing.
C9_NoOutFileSucceeds ==
    (/\ et_iter /\ et_args.out_file = NoFile
     /\ et_pc \notin {"created", "start_worker", "wait", "join", "classify"}
     /\ proc = "exited" /\ exit_code = 0 /\ ~HasMarker(buffer)) =>
        /\ outcome = "Succeeded"
        /\ err = NoErr
        /\ et_yielded = 0

\* the captured lines that hold 'warning'
WarningLines(text) == SelectSeq(text, IsWarning)

\* C11: with a sink given, the text passed on to the sink is at every moment
\* the text of the internal buffer, each captured line in both once and in
\* the order the engine wrote them; without a sink nothing is passed on and
\* the buffer alone holds every captured line.
C11_SinkEqualsBuffer ==
    /\ buffer = SubSeq(plan.lines, 1, Len(buffer))
    /\ Len(buffer) = written - Len(pipe)
    /\ IF Truthy(et_args.stdout_to) THEN sink = buffer ELSE sink = << >>

\* a sink that has been passed more lines than the pipe holds, of more than
\* one kind, while the engine is still running
C11_Witness ==
    /\ et_iter /\ Truthy(et_args.stdout_to)
    /\ proc = "running"
    /\ Len(sink) > PipeCap
    /\ sink[1] # sink[2]

\* C12: with raise_warnings set, every captured line holding 'warning' has
\* given one JktebopTaskWarning and no other line has; a warning neither ends
\* the drain, which stops only at the end of the engine's output, nor enters
\* the classification of the outcome; with raise_warnings not set there is no
\* warning.
C12_WarningsNeverAbort ==
    /\ warned = IF Truthy(et_args.raise_warnings)
                THEN WarningLines(buffer) ELSE << >>
    /\ (worker = "done") => (proc = "exited" /\ buffer = plan.lines)
    /\ (Classified /\ et_args.out_file # NoFile /\ et_pc \in {"open", "raised"}) =>
           ((outcome = "Failed") <=>
                \/ plan.rc # 0
                \/ files[et_args.out_file] = "absent"
                \/ HasMarker(plan.lines))

\* a run classified Succeeded whose first line gave a warning and was
\* followed by another line
C12_Witness ==
    /\ Classified /\ outcome = "Succeeded"
    /\ Truthy(et_args.raise_warnings)
    /\ Len(warned) = 1
    /\ Len(buffer) > 1 /\ IsWarning(buffer[1])

(***************************************************************************)
(* The placeholder grammar, read in one pass from left to right: at a '$', *)
(* '$$' is an escape, '$name' and '${name}' are placeholders without a     *)
(* default and '${name|default}' is a placeholder that declares one; any   *)
(* other '$' is invalid.  Text that an escape has consumed, or that lies   *)
(* between placeholders, is ordinary text.                                 *)
(***************************************************************************)
PlaceholderAt(s, i) ==
    IF At(s, i + 1) = "$" THEN TemplateMatch(s, i)
    ELSE IF DefaultsMatch(s, i) # NoMatch THEN DefaultsMatch(s, i)
    ELSE TemplateMatch(s, i)

\* the placeholders of a text from index i on, in the order they appear
RECURSIVE Placeholders(_, _)
Placeholders(s, i) ==
    IF i > Len(s) THEN << >>
    ELSE IF s[i] # "$" THEN Placeholders(s, i + 1)
    ELSE LET mo == PlaceholderAt(s, i) IN
         IF mo.group \in {"named", "braced", "default"}
         THEN <<mo>> \o Placeholders(s, mo.end + 1)
         ELSE Placeholders(s, mo.end + 1)

\* the identifiers of the placeholders, each at its first occurrence
RECURSIVE FirstOccurrences(_, _)
FirstOccurrences(phs, ids) ==
    IF phs = << >> THEN ids
    ELSE FirstOccurrences(Tail(phs),
                          IF Head(phs).name \in Range(ids) THEN ids
                          ELSE Append(ids, Head(phs).name))

PlaceholderIds(s) == FirstOccurrences(Placeholders(s, 1), << >>)

\* the default declared for an identifier: that of the first placeholder of
\* the identifier that declares one
DeclaredDefaults(s) ==
    LET phs == Placeholders(s, 1)
        declaring(x) == {i \in DOMAIN phs :
                           phs[i].name = x /\ phs[i].group = "default"}
        first(x) == CHOOSE i \in declaring(x) : \A j \in declaring(x) : i <= j
    IN [x \in {phs[i].name : i \in {j \in DOMAIN phs : phs[j].group = "default"}}
          |-> phs[first(x)].default]

\* the value used for each identifier under the precedence law
Precedence(kwds, mapping, defaults) ==
    [x \in DOMAIN kwds \cup DOMAIN mapping \cup DOMAIN defaults |->
       IF x \in DOMAIN kwds THEN kwds[x]
       ELSE IF x \in DOMAIN mapping THEN mapping[x]
       ELSE StrV(defaults[x])]

\* the text with its placeholders replaced by their values, read in one pass
RECURSIVE Rendered(_, _, _, _)
Rendered(s, i, values, safe) ==
    IF i > Len(s) THEN TextOut(<< >>)
    ELSE IF s[i] # "$" THEN Before(<<s[i]>>, Rendered(s, i + 1, values, safe))
    ELSE LET mo == PlaceholderAt(s, i)
             rest == Rendered(s, mo.end + 1, values, safe)
         IN IF mo.group = "escaped" THEN Before(<<"$">>, rest)
            ELSE IF mo.group = "invalid"
            THEN IF safe THEN Before(<<"$">>, rest) ELSE ValueError
            ELSE IF mo.name \in DOMAIN values
            THEN Before(Str(values[mo.name]), rest)
            ELSE IF safe THEN Before(SubSeq(s, i, mo.end), rest)
            ELSE KeyError(mo.name)

\* a substitute or safe_substitute call has been made on a TemplateEx
Substituted ==
    tpl_kind = "TemplateEx" /\ tpl_call.op \in {"substitute", "safe_substitute"}

SafeCall == tpl_call.op = "safe_substitute"

\* C13: in the text a substitute or safe_substitute call returns, the value
\* used for every placeholder is the keyword argument of its identifier if
\* one was given, otherwise the entry of the explicit mapping if there is
\* one, otherwise the default the template declares for the identifier.
C13_PrecedenceLaw ==
    (/\ Substituted
     /\ \A x \in Range(PlaceholderIds(tpl_src)) :
            x \in DOMAIN tpl_call.kwds \cup DOMAIN tpl_call.mapping
                   \cup DOMAIN DeclaredDefaults(tpl_src)) =>
        tpl_out = Convert(tpl.template, 1,
                          Precedence(tpl_call.kwds, tpl_call.mapping,
                                     DeclaredDefaults(tpl_src)),
                          SafeCall)

\* C14: when the template declares a default for an identifier with
\* ${x|default} and the call gives no value for it, substitute and
\* safe_substitute replace every placeholder of the identifier by that
\* default, the empty default included.
C14_DeclaredDefaultUsed ==
    Substituted =>
        \A x \in DOMAIN DeclaredDefaults(tpl_src) :
            (x \notin DOMAIN tpl_call.kwds \cup DOMAIN tpl_call.mapping) =>
                /\ tpl_out.kind # "KeyError" \/ tpl_out.key # x
                /\ tpl_out =
                     Convert(tpl.template, 1,
                             (x :> StrV(DeclaredDefaults(tpl_src)[x])) @@
                             Precedence(tpl_call.kwds, tpl_call.mapping,
                                        DeclaredDefaults(tpl_src)),
                             SafeCall)

\* C15: when a placeholder's identifier has no declared default and no value
\* is given for it, substitute raises KeyError naming the identifier and
\* returns no text; safe_substitute raises nothing and returns the text with
\* that placeholder left as it was and every other placeholder substituted.
C15_MissingIdentifier ==
    Substituted =>
        \A x \in Range(PlaceholderIds(tpl_src)) :
            (/\ x \notin DOMAIN DeclaredDefaults(tpl_src)
             /\ x \notin DOMAIN tpl_call.kwds \cup DOMAIN tpl_call.mapping) =>
                IF SafeCall
                THEN /\ tpl_out.kind = "text"
                     /\ tpl_out =
                          Rendered(tpl_src, 1,
                                   Precedence(tpl_call.kwds, tpl_call.mapping,
                                              DeclaredDefaults(tpl_src)),
                                   TRUE)
                ELSE tpl_out = KeyError(x)

\* C16: every '$$' of the source text gives one '$' in the text substitute
\* and safe_substitute return, and what follows it is reproduced as ordinary
\* text, also when it has the form '{name|default}': the text returned is
\* the source read in one pass, whatever values the call resolves.
C16_EscapeLaw ==
    Substituted =>
        LET values == Precedence(tpl_call.kwds, tpl_call.mapping, tpl.defaults)
            expected == Rendered(tpl_src, 1, values, SafeCall)
        IN (expected.kind = "text") => (tpl_out = expected)

\* C20: the keys of default_params are the identifiers of the template's
\* placeholders, each once, in the order of their first occurrence; the
\* value of a key is the default declared for it, the empty string for
\* ${name|}, and None when none is declared; for a string.Template every
\* value is None.
C20_IdentifiersAndDefaults ==
    (tpl_call.op = "default_params") =>
        IF tpl_kind = "TemplateEx"
        THEN LET ids == PlaceholderIds(tpl_src)
                 declared == DeclaredDefaults(tpl_src)
             IN tpl_out.items =
                  [i \in DOMAIN ids |->
                     <<ids[i], IF ids[i] \in DOMAIN declared
                               THEN StrV(declared[ids[i]]) ELSE NoneValue>>]
        ELSE LET phs == SelectSeq(Placeholders(tpl_src, 1),
                                  LAMBDA mo : mo.group # "default")
                 ids == FirstOccurrences(phs, << >>)
             IN tpl_out.items = [i \in DOMAIN ids |-> <<ids[i], NoneValue>>]

\* invocation i has reserved its names and has not returned or raised
InFlight(i) == runs[i].pc \in {"created", "render", "open", "yield"}

\* C17: two Task2.run invocations with the same prefix on one working
\* directory, both in flight, never have the same in-file or result file
\* name, whatever the interleaving of their steps.
C17_NoSharedNames ==
    \A i, j \in RunIds :
        (i # j /\ InFlight(i) /\ InFlight(j)) =>
            /\ RunInFile(runs[i]) # RunInFile(runs[j])
            /\ (RunResultFile(runs[i]) # NoFile) =>
                   (RunResultFile(runs[i]) # RunResultFile(runs[j]))

\* C18: when Task.run renders the in-file, none of <stem>.in, .par, .out and
\* .fit exists in the working directory, and every line Task.run yields is
\* read from a result file made after the call began, never from a file
\* that was there before it.
C18_NoStaleLines ==
    /\ (t_pc = "render") =>
           \A e \in CleanExts :
               files[File(WorkingDir, t_args.file_stem, e)] = "absent"
    /\ (t_pc = "yield" /\ t_yielded > 0) =>
           files[TaskResultFile] \notin {"stale", "absent"}

\* C19: once a Task.run that raised nothing has been consumed to the end,
\* with do_cleanup none of <stem>.in, .par, .out and .fit exists in the
\* working directory; without it the rendered in-file and the result file
\* still exist.
C19_TaskCleanupLaw ==
    (t_pc = "done") =>
        IF t_args.do_cleanup
        THEN \A e \in CleanExts :
                 files[File(WorkingDir, t_args.file_stem, e)] = "absent"
        ELSE /\ files[TaskInFile] = "rendered"
             /\ (TaskResultFile # NoFile) => (files[TaskResultFile] # "absent")

\* a Task2.run with do_cleanup, all lines of its result file consumed, whose
\* in-file is gone
C19_Witness ==
    /\ caller = "Task2.run" /\ t_pc = "done" /\ t_args.do_cleanup
    /\ t_yielded = ResultLines
    /\ files[TaskInFile] = "absent"

\* the placeholders of the text a Task's template was made from: a
\* string.Template knows no '${name|default}'
TaskPlaceholders ==
    IF tpl_kind = "TemplateEx" THEN Placeholders(tpl_src, 1)
    ELSE SelectSeq(Placeholders(tpl_src, 1), LAMBDA mo : mo.group # "default")

\* the defaults the text declares for the Task's template
TaskDeclaredDefaults ==
    IF tpl_kind = "TemplateEx" THEN DeclaredDefaults(tpl_src) ELSE << >>

\* the text of the in-file for the params of the last _write_in_file call
TaskRendered ==
    IF tpl_kind = "TemplateEx"
    THEN Rendered(tpl_src, 1,
                  Precedence(<< >>, tpl_call.mapping, TaskDeclaredDefaults), FALSE)
    ELSE Convert(tpl_src, 1, tpl_call.mapping, FALSE)

\* C21: when the params of Task._write_in_file lack a value for an
\* identifier that has no default, the call raises KeyError and the in-file
\* is as it was before the call, not there or unchanged; when every such
\* identifier has a value, the in-file holds the substituted text, in which
\* entries of params that the template does not name do not appear.
C21_StrictRendering ==
    (tpl_call.op = "write_in_file") =>
        IF \E i \in DOMAIN TaskPlaceholders :
               TaskPlaceholders[i].name \notin
                   DOMAIN tpl_call.mapping \cup DOMAIN TaskDeclaredDefaults
        THEN /\ tpl_out.kind = "KeyError"
             /\ tpl_file = tpl_call.before
        ELSE (TaskRendered.kind = "text") =>
                 tpl_file = [exists |-> TRUE, text |-> TaskRendered.text]

\* the number of '$' of a text, from index i on, that are neither an
\* escape nor the start of a placeholder
RECURSIVE InvalidDollars(_, _)
InvalidDollars(s, i) ==
    IF i > Len(s) THEN 0
    ELSE IF s[i] # "$" THEN InvalidDollars(s, i + 1)
    ELSE LET mo == PlaceholderAt(s, i) IN
         (IF mo.group = "invalid" THEN 1 ELSE 0) + InvalidDollars(s, mo.end + 1)

C23_ArgumentsUnchanged ==
    (t_pc \in {"open", "yield", "done", "closed", "raised"}
     /\ et_args # NoArgs) =>
        /\ et_args.stdout_to = t_args.stdout_to
        /\ et_args.cleanup_pattern = NoneV
        /\ et_args.raise_warnings = BoolStr(t_args.raise_warnings)

\* C24: under fair scheduling of the calling thread, the engine and the
\* drain thread, an iterated execute_task reaches a terminal outcome
\* (classified, or raised before the launch) whatever the engine writes,
\* more lines than the pipe holds included; the wait for the process exit
\* returns and the join of the drain thread returns.
C24_Terminates ==
    /\ <>(et_pc = "raised" \/ outcome # "Running")
    /\ (et_pc = "wait") ~> (et_pc = "join")
    /\ (et_pc = "join") ~> (et_pc = "classify")

\* a run was classified whose engine wrote more lines than the pipe holds,
\* all of them drained
C24_Witness ==
    /\ Classified
    /\ Len(plan.lines) > PipeCap
    /\ worker = "done"
    /\ buffer = plan.lines

\* C25: an execution of execute_task creates at most one engine process and
\* at most one drain thread (so nothing is launched again after a failure);
\* the drain thread and the engine have finished when the outcome is
\* classified; neither is running once execute_task has raised or has
\* yielded a line.
C25_OneEngineOneWorker ==
    /\ spawned <= 1
    /\ workers_started <= 1
    /\ Classified => (worker = "done" /\ proc = "exited")
    /\ (et_pc \in {"raised", "abandoned"} \/ et_yielded >= 1) =>
           (proc # "running" /\ worker # "running")

GivenKeys == DOMAIN tpl_call.kwds \cup DOMAIN tpl_call.mapping

\* the keys given to the call that differ in letter case only from the
\* identifier of a placeholder of the text
CaseKeys ==
    {k \in GivenKeys :
       \E i \in DOMAIN Placeholders(tpl_src, 1) :
          /\ Placeholders(tpl_src, 1)[i].name # k
          /\ CaseFold(Placeholders(tpl_src, 1)[i].name) = CaseFold(k)}

\* the identifiers of the placeholders of the text for which no key of
\* exactly that name is given
MissingIds ==
    {Placeholders(tpl_src, 1)[i].name : i \in DOMAIN Placeholders(tpl_src, 1)}
        \ GivenKeys

\* the identifiers among them for which a key is given that differs from
\* the identifier in letter case only
CaseMissed ==
    {x \in MissingIds : \E k \in GivenKeys : CaseFold(k) = CaseFold(x)}

\* C27: resolution is case-sensitive.  The value of a key that differs in
\* letter case only from the identifier of a placeholder appears nowhere in
\* the result.  If such a key is all that is given for an identifier and
\* the text declares no default, substitute raises (KeyError for an
\* identifier without a key, unless an invalid '$' is in the text), and
\* safe_substitute returns a text, which is the source itself when the
\* source has no escape and none of its identifiers has a key.
C27_CaseSensitive ==
    /\ (Substituted /\ CaseKeys # {} /\ tpl_out.kind = "text") =>
           "Z" \notin Range(tpl_out.text)
    /\ (/\ Substituted
        /\ CaseMissed # {}
        /\ \A i \in DOMAIN tpl_src : DefaultsMatch(tpl_src, i) = NoMatch) =>
           IF SafeCall
           THEN /\ tpl_out.kind = "text"
                /\ (/\ \A i \in DOMAIN Placeholders(tpl_src, 1) :
                          Placeholders(tpl_src, 1)[i].name \in MissingIds
                    /\ \A i \in DOMAIN tpl_src : At(tpl_src, i) = "$" =>
                          PlaceholderAt(tpl_src, i).group # "escaped")
                   => tpl_out.text = tpl_src
           ELSE /\ tpl_out.kind \in {"KeyError", "ValueError"}
                /\ InvalidDollars(tpl_src, 1) = 0 =>
                      /\ tpl_out.kind = "KeyError"
                      /\ tpl_out.key \in MissingIds

\* substitute was called on a text whose only placeholder is $a, with the
\* key A and no key a, and raised KeyError for a
C27_Witness ==
    /\ Substituted /\ ~SafeCall
    /\ NameUpperA \in GivenKeys
    /\ CaseMissed = {NameA}
    /\ MissingIds = {NameA}
    /\ tpl_out = KeyError(NameA)

\* a step changes no file but the four of the invocation's stem
OwnStemStep ==
    \A f \in AllFiles :
       (files'[f] # files[f]) =>
          (f.dir = WorkingDir /\ f.stem = t_args'.file_stem
           /\ f.ext \in CleanExts)

\* C28: every file a step of Task.run or Task2.run deletes, creates or
\* overwrites is <stem>.in, <stem>.par, <stem>.out or <stem>.fit in the
\* working directory, for the stem of the invocation (for Task2.run the stem
\* of the temporary in-file); every other file stays as it was, whether the
\* run succeeds or fails.
C28_OwnStemOnly ==
    [][(caller \in {"Task.run", "Task2.run"}) => OwnStemStep]_vars

\* a Task2.run with cleanup requested has run to its end, and the files of
\* another stem and of the caller's prefix are as they were
C28_Witness ==
    /\ caller = "Task2.run"
    /\ t_pc = "done"
    /\ t_args.do_cleanup
    /\ files[OtherStemFile] = "stale"
    /\ files[File(WorkingDir, "a", "out")] = "stale"
    /\ files[TaskInFile] = "absent"

\* C29: once the consumer has dropped the generator of execute_task or of
\* Task.run before the end of the sequence, the post-run cleanup is not
\* performed: the in-file and the out-file (for Task2.run the temporary
\* in-file and its result file) are still there, cleanup requested or not.
C29_EarlyStopKeepsFiles ==
    /\ et_pc = "closed" =>
           /\ files[et_args.in_file] # "absent"
           /\ files[et_args.out_file] # "absent"
    /\ t_pc = "closed" =>
           /\ files[TaskInFile] = "rendered"
           /\ files[TaskResultFile] # "absent"

\* the consumer dropped a succeeded execute_task before the last line, with
\* a cleanup pattern given that matches the in-file
C29_Witness ==
    /\ et_pc = "closed"
    /\ outcome = "Succeeded"
    /\ et_yielded < et_total
    /\ Truthy(et_args.cleanup_pattern)
    /\ Matches(et_args.cleanup_pattern, et_args.in_file)

\* C30: for a TemplateEx made from any source text, every identifier with a
\* recorded default is an identifier of a placeholder of the normalized
\* text; every identifier of a placeholder of the normalized text is a key
\* of get_identifiers_and_defaults; and each recorded default is the default
\* that a real placeholder of the source declares (none is recorded from
\* text such as '{a|b}' after an escaped '$$').
C30_ParseInvariant ==
    (tpl_kind = "TemplateEx" /\ tpl.made) =>
        LET ids == Range(GetTemplateIdentifiers(tpl.template, 1, << >>))
            items == GetIdentifiersAndDefaults(tpl)
            declared == DeclaredDefaults(tpl_src)
        IN /\ DOMAIN tpl.defaults \subseteq ids
           /\ ids \subseteq {items[i][1] : i \in DOMAIN items}
           /\ DOMAIN tpl.defaults \subseteq DOMAIN declared
           /\ \A x \in DOMAIN tpl.defaults : tpl.defaults[x] = declared[x]

=============================================================================
